---- MODULE Spec2Model ----
(***************************************************************************)
(* GammaFF (Gamma-robust First-Fit) consolidation heuristic of             *)
(* src/Code99per.py: the VM/PM data model, robust_cpu_usage,               *)
(* can_place_vm_on_pm and GammaFFSolver (constructor, run,                 *)
(* _single_iteration, check_feasibility).                                  *)
(*                                                                         *)
(* Quantities (u_c, u_r, mem, cpu_cap, mem_cap) are floats in the source.  *)
(* They are modelled as integers counted in units of the comparison        *)
(* tolerance 1e-9, so the tolerance itself is Eps == 1.                    *)
(***************************************************************************)
EXTENDS Integers, Sequences, FiniteSets, TLC

\* ---------------------------------------------------------------- bounds
MaxIter == 2
MaxG == 2
MaxLen == 3
MaxRows == 3
MaxN == 3

\* tolerance of the capacity comparisons (1e-9), in model units
Eps == 1

\* Optional[int] pm_id: None
None == 0

PMIds == {1, 2}
VMIds == {1, 2, 3}

\* (u_c, u_r, mem) of the VMs the inputs are drawn from
ProfileSeq == <<  <<1, 1, 1>>, <<2, 0, 0>>, <<1, 0, 2>>, <<1, 0, 4>>  >>
CpuCaps == {1, 3}
MemCaps == {2, 3}
\* sample_ratio in percent: 0.15 (the default) and 1.0
SampleRatios == {15, 100}

VARIABLES
    pc,                \* position of the caller: "new", "ready", "running", "done", "error"
    in_pms,            \* constructor argument pms: sequence of PM records
    in_vms,            \* constructor argument vms: sequence of VM records
    pms,               \* self._pms: id -> PM record
    vms,               \* self._vms: id -> VM record
    G,                 \* self.G
    sample_ratio,      \* self.sample_ratio, in percent
    max_iter,          \* self.max_iter
    migration_count,   \* self.migration_count
    iter_count,        \* run(): iter_count
    improved_anything, \* run(): improved_anything
    result,            \* <<value returned by run()>>, <<>> until it returns
    history,           \* log of the executed iterations (observation only)
    fn,                \* the last call of a pure function and its result
    twin               \* a second engine, built from the same arguments

vars == <<pc, in_pms, in_vms, pms, vms, G, sample_ratio, max_iter,
          migration_count, iter_count, improved_anything, result, history, fn, twin>>

\* ------------------------------------------------------- python helpers
Min(a, b) == IF a <= b THEN a ELSE b
Max(a, b) == IF a >= b THEN a ELSE b

Range(s) == { s[i] : i \in 1..Len(s) }

\* body(v) for v the value of x, computed once
With(x, body(_)) == CHOOSE r \in { body(v) : v \in {x} } : TRUE

\* sum(xs) over a list of numbers
RECURSIVE py_sum(_)
py_sum(xs) == IF xs = <<>> THEN 0 ELSE Head(xs) + py_sum(Tail(xs))

\* xs[:g], for any integer g (a negative g counts from the end)
py_slice_to(xs, g) ==
    SubSeq(xs, 1, IF g >= 0 THEN Min(g, Len(xs)) ELSE Max(0, Len(xs) + g))

\* [f(x) for x in xs]
MapSeq(xs, f(_)) == [i \in 1..Len(xs) |-> f(xs[i])]

\* insertion of x into a descending list, after the elements >= x
insert_desc(x, t) ==
    LET n == Cardinality({ i \in 1..Len(t) : t[i] >= x })
    IN  SubSeq(t, 1, n) \o <<x>> \o SubSeq(t, n + 1, Len(t))

insert_asc(x, t) ==
    LET n == Cardinality({ i \in 1..Len(t) : t[i] <= x })
    IN  SubSeq(t, 1, n) \o <<x>> \o SubSeq(t, n + 1, Len(t))

RECURSIVE sorted_asc(_)
sorted_asc(xs) ==
    IF xs = <<>> THEN <<>> ELSE insert_asc(Head(xs), sorted_asc(Tail(xs)))

\* sorted(xs, reverse=True) over numbers
RECURSIVE sorted_reverse(_)
sorted_reverse(xs) ==
    IF xs = <<>> THEN <<>> ELSE insert_desc(Head(xs), sorted_reverse(Tail(xs)))

\* ------------------------------------------------------------ data model
\* VM(id, u_c, u_r, mem, pm_id)
VM(id, u_c, u_r, mem, pm_id) ==
    [id |-> id, u_c |-> u_c, u_r |-> u_r, mem |-> mem, pm_id |-> pm_id]

\* VM.u_max
u_max(vm) == vm.u_c + vm.u_r

\* PM(id, cpu_cap, mem_cap, vms, active)
PM(id, cpu_cap, mem_cap, vmlist, active) ==
    [id |-> id, cpu_cap |-> cpu_cap, mem_cap |-> mem_cap, vms |-> vmlist,
     active |-> active]

\* ------------------------------------------------- robust CPU, placement
\* mutant: the radii sorted ascending (reverse=True forgotten)
robust_cpu_usage_ascending(vms_on_pm, g) ==
    IF vms_on_pm = <<>> THEN 0
    ELSE LET centers == MapSeq(vms_on_pm, LAMBDA vm : vm.u_c)
             radii == sorted_asc(MapSeq(vms_on_pm, LAMBDA vm : vm.u_r))
         IN  py_sum(centers) + py_sum(py_slice_to(radii, g))

robust_cpu_usage(vms_on_pm, g) ==
    IF vms_on_pm = <<>> THEN 0
    ELSE LET centers == MapSeq(vms_on_pm, LAMBDA vm : vm.u_c)
             radii == sorted_reverse(MapSeq(vms_on_pm, LAMBDA vm : vm.u_r))
         IN  py_sum(centers) + py_sum(py_slice_to(radii, g))

\* mutant: the candidate VM left out of the hypothetical set
current_vms_without_vm(vm, pm, all_vms) ==
    MapSeq(pm.vms, LAMBDA vid : all_vms[vid])

\* current_vms of can_place_vm_on_pm: pm's residents, then vm
current_vms(vm, pm, all_vms) ==
    Append(MapSeq(pm.vms, LAMBDA vid : all_vms[vid]), vm)

\* mutant: the memory bound left out
can_place_vm_on_pm_cpu_only(vm, pm, all_vms, g) ==
    LET cur == current_vms(vm, pm, all_vms)
        cpu == robust_cpu_usage(cur, g)
    IN  IF cpu > pm.cpu_cap + Eps THEN FALSE ELSE TRUE

\* mutant: the memory bound compared without the tolerance
can_place_vm_on_pm_mem_exact(vm, pm, all_vms, g) ==
    LET cur == current_vms(vm, pm, all_vms)
        cpu == robust_cpu_usage(cur, g)
        mem == py_sum(MapSeq(cur, LAMBDA v : v.mem))
    IN  IF cpu > pm.cpu_cap + Eps THEN FALSE
        ELSE IF mem > pm.mem_cap THEN FALSE
        ELSE TRUE

can_place_vm_on_pm(vm, pm, all_vms, g) ==
    LET cur == current_vms(vm, pm, all_vms)
        cpu == robust_cpu_usage(cur, g)
        mem == py_sum(MapSeq(cur, LAMBDA v : v.mem))
    IN  IF cpu > pm.cpu_cap + Eps THEN FALSE
        ELSE IF mem > pm.mem_cap + Eps THEN FALSE
        ELSE TRUE

\* ---------------------------------------------------------- GammaFFSolver
\* key order of the dict self._pms: the order of the constructor's pms
\* (copy.deepcopy of the dict, taken for the snapshot, keeps it)
pm_keys == MapSeq(in_pms, LAMBDA pm : pm.id)

\* key order of the dict self._vms
vm_keys == MapSeq(in_vms, LAMBDA vm : vm.id)

\* the ids of a list of VM ids sent to one PM, in dict order of self._vms
vm_ids_with_pm(V, p) == SelectSeq(vm_keys, LAMBDA vid : V[vid].pm_id = p)

\* mutant: a VM that names a PM that does not exist skipped like one with None
sync_raises_never(P, V) == FALSE

\* _sync_vm_pm_lists: raises when some VM names a PM that does not exist
sync_raises(P, V) ==
    \E vid \in DOMAIN V : V[vid].pm_id # None /\ V[vid].pm_id \notin DOMAIN P

\* the ValueError raised: f"VM {vm.id} refers to non-existent PM {vm.pm_id}",
\* for the first VM, in dict order, that names a PM that does not exist
sync_error(P, V) ==
    LET bad == SelectSeq(vm_keys, LAMBDA vid :
                   V[vid].pm_id # None /\ V[vid].pm_id \notin DOMAIN P)
    IN  [raised |-> "ValueError", vm |-> Head(bad), pm |-> V[Head(bad)].pm_id]

\* _sync_vm_pm_lists: pm.vms rebuilt from vm.pm_id, pm.active = bool(pm.vms)
sync_vm_pm_lists(P, V) ==
    [p \in DOMAIN P |->
        [P[p] EXCEPT !.vms = vm_ids_with_pm(V, p),
                     !.active = (vm_ids_with_pm(V, p) # <<>>)]]

\* check_feasibility: the list of violations, per PM in dict order, CPU first
pm_errors(pm, V, g) ==
    LET vms_on_pm == MapSeq(pm.vms, LAMBDA vid : V[vid])
        cpu == robust_cpu_usage(vms_on_pm, g)
        mem == py_sum(MapSeq(vms_on_pm, LAMBDA vm : vm.mem))
    IN  (IF cpu > pm.cpu_cap + Eps
            THEN << [pm |-> pm.id, kind |-> "CPU", value |-> cpu, cap |-> pm.cpu_cap] >>
            ELSE <<>>)
        \o
        (IF mem > pm.mem_cap + Eps
            THEN << [pm |-> pm.id, kind |-> "MEM", value |-> mem, cap |-> pm.mem_cap] >>
            ELSE <<>>)

RECURSIVE errors_of(_, _, _, _)
errors_of(keys, P, V, g) ==
    IF keys = <<>> THEN <<>>
    ELSE pm_errors(P[Head(keys)], V, g) \o errors_of(Tail(keys), P, V, g)

check_feasibility(P, V, g) ==
    LET errors == errors_of(pm_keys, P, V, g)
    IN  << Len(errors) = 0, errors >>

\* candidate_pms of _single_iteration: the PMs with residents, in dict order
candidate_pms(P) == SelectSeq(pm_keys, LAMBDA p : P[p].vms # <<>>)

\* min(candidate_pms, key=len(pm.vms)): the first PM of the list with the
\* fewest residents
pm_empty_of(P) ==
    LET c == candidate_pms(P)
        first == CHOOSE i \in 1..Len(c) :
                    /\ \A j \in 1..Len(c) : Len(P[c[j]].vms) >= Len(P[c[i]].vms)
                    /\ \A j \in 1..(i - 1) : Len(P[c[j]].vms) > Len(P[c[i]].vms)
    IN  c[first]

\* mutant: k = int(len(pm.vms) * sample_ratio)
sample_size_unfloored(n, ratio) == (n * ratio) \div 100

\* k = max(1, int(len(pm.vms) * sample_ratio))
sample_size(n, ratio) == Max(1, (n * ratio) \div 100)

\* the outcomes of rng.sample(pm.vms, k) over every PM other than pm_empty that
\* has residents, as positions of pm.vms: p -> the k positions picked from p
\* (none for the PMs skipped). The positions depend on the state of rng, on
\* len(pm.vms) and on k only
PosDraws(P, e, ratio) ==
    { d \in [DOMAIN P -> SUBSET (1..Cardinality(VMIds))] :
        \A p \in DOMAIN P :
            IF p = e \/ P[p].vms = <<>>
            THEN d[p] = {}
            ELSE /\ d[p] \subseteq 1..Len(P[p].vms)
                 /\ Cardinality(d[p]) = sample_size(Len(P[p].vms), ratio) }

\* sampled: the ids at the positions picked
sampled_at(P, pd) == [p \in DOMAIN P |-> { P[p].vms[i] : i \in pd[p] }]

\* the outcomes of rng.sample: p -> the set sampled from p
Draws(P, e, ratio) == { sampled_at(P, pd) : pd \in PosDraws(P, e, ratio) }

\* mutant: the sampled VMs left on their PMs' lists
drained_keeps_sampled(P, e, d) ==
    [p \in DOMAIN P |-> IF p = e THEN [P[p] EXCEPT !.vms = <<>>] ELSE P[p]]

\* steps 2.1 and 2.2: pm_empty drained, the sampled VMs taken off their PMs
drained(P, e, d) ==
    [p \in DOMAIN P |->
        IF p = e THEN [P[p] EXCEPT !.vms = <<>>]
        ELSE [P[p] EXCEPT !.vms = SelectSeq(P[p].vms, LAMBDA vid : vid \notin d[p])]]

\* the ids of the queue: pm_empty's residents and every sample
queue_ids(P, e, d) == Range(P[e].vms) \cup UNION { d[p] : p \in DOMAIN P }

\* list(set(queue_vm_ids)) followed by the stable sort on u_max, descending:
\* the set's iteration order decides the order of VMs of equal u_max
QueueOrders(ids, V) ==
    { q \in [1..Cardinality(ids) -> ids] :
        /\ \A i, j \in DOMAIN q : i # j => q[i] # q[j]
        /\ \A i, j \in DOMAIN q : i < j => u_max(V[q[i]]) >= u_max(V[q[j]]) }

\* mutant: the last PM, in dict order, that admits vm
last_fit(keys, vm, P, V, g) ==
    LET ok == SelectSeq(keys, LAMBDA p : can_place_vm_on_pm(vm, P[p], V, g))
    IN  IF ok = <<>> THEN None ELSE ok[Len(ok)]

\* the first PM, in dict order, that admits vm; None when no PM does
first_fit(keys, vm, P, V, g) ==
    LET ok == SelectSeq(keys, LAMBDA p : can_place_vm_on_pm(vm, P[p], V, g))
    IN  IF ok = <<>> THEN None ELSE Head(ok)

\* one VM put on PM p: pm.vms.append(vm.id), vm.pm_id = pm.id, pm.active = True
put(P, V, vid, p) ==
    [pms |-> [P EXCEPT ![p].vms = Append(@, vid), ![p].active = TRUE],
     vms |-> [V EXCEPT ![vid].pm_id = p]]

\* step 4: the queue placed first-fit; stops at the first VM no PM admits
RECURSIVE place_queue(_, _, _, _)
place_queue(queue, P, V, g) ==
    IF queue = <<>> THEN [placed_all |-> TRUE, pms |-> P, vms |-> V]
    ELSE With(first_fit(pm_keys, V[Head(queue)], P, V, g), LAMBDA p :
            IF p = None THEN [placed_all |-> FALSE, pms |-> P, vms |-> V]
            ELSE With(put(P, V, Head(queue), p), LAMBDA s :
                    place_queue(Tail(queue), s.pms, s.vms, g)))

\* the count added to migration_count by a committed iteration
moved(snapshot_vms, V) ==
    Cardinality({ vid \in DOMAIN V : snapshot_vms[vid].pm_id # V[vid].pm_id })

\* mutant: the snapshot made without copying, so that it is the live objects
rollback_to_live(snapshot, live) == live

\* the state a failed iteration leaves: the snapshot
rollback(snapshot, live) == snapshot

\* mutant: the active flags left as the first-fit pass set them
commit_pms_flags_stale(P) == P

\* step "if placed_all": pm.active = bool(pm.vms) for every PM
commit_pms(P) == [p \in DOMAIN P |-> [P[p] EXCEPT !.active = (P[p].vms # <<>>)]]

\* mutant: the moves of a failed iteration counted as well
commit_or_rollback_counting_failed(snapshot_pms, snapshot_vms, mc, r) ==
    [ok |-> r.placed_all,
     pms |-> IF r.placed_all THEN commit_pms(r.pms) ELSE snapshot_pms,
     vms |-> IF r.placed_all THEN r.vms ELSE snapshot_vms,
     migration_count |-> mc + moved(snapshot_vms, r.vms),
     live_pms |-> r.pms, live_vms |-> r.vms]

\* the end of _single_iteration, r being the outcome of the first-fit pass
commit_or_rollback(snapshot_pms, snapshot_vms, mc, r) ==
    IF r.placed_all
    THEN [ok |-> TRUE,
          pms |-> commit_pms(r.pms),
          vms |-> r.vms,
          migration_count |-> mc + moved(snapshot_vms, r.vms),
          live_pms |-> r.pms, live_vms |-> r.vms]
    ELSE [ok |-> FALSE,
          pms |-> rollback(snapshot_pms, r.pms),
          vms |-> rollback(snapshot_vms, r.vms),
          migration_count |-> mc,
          live_pms |-> r.pms, live_vms |-> r.vms]

\* _single_iteration on state (P, V, mc), pm_empty being e, with rng outcome d
\* and queue order q
single_iteration(P, V, mc, g, e, d, q) ==
    With(drained(P, e, d), LAMBDA live :
        With(place_queue(q, live, V, g), LAMBDA r :
            commit_or_rollback(P, V, mc, r)))

\* ------------------------------------------------------------------ inputs
\* the orders in which the constructor can be given the PMs
Orders(S) ==
    { o \in [1..Cardinality(S) -> S] : \A i, j \in DOMAIN o : i # j => o[i] # o[j] }

\* an id no PM has
GhostPM == Cardinality(PMIds) + 1

\* the PM lists given to the constructor: PM(id, cpu_cap, mem_cap), with the
\* dataclass defaults vms = [] and active = True
InputPMs ==
    { [i \in DOMAIN o |-> PM(o[i], cc[o[i]], mc[o[i]], <<>>, TRUE)] :
        o \in Orders(PMIds), cc \in [PMIds -> CpuCaps],
        mc \in { f \in [PMIds -> MemCaps] : \A p1, p2 \in PMIds : f[p1] = f[p2] } }

\* the pm_id of the VMs given to the constructor: every VM on a PM, or the last
\* VM on none, or no VM on any, or the first VM on a PM that does not exist
Placements ==
    { f \in [VMIds -> PMIds \cup {None}] :
        \/ \A i \in VMIds : f[i] = None => i = Cardinality(VMIds)
        \/ \A i \in VMIds : f[i] = None }
    \cup { [i \in VMIds |-> IF i = 1 THEN GhostPM ELSE 1] }

\* the VM lists given to the constructor, listed by id
InputVMs ==
    { [i \in VMIds |->
         VM(i, ProfileSeq[pr[i]][1], ProfileSeq[pr[i]][2], ProfileSeq[pr[i]][3], at[i])] :
        pr \in { f \in [VMIds -> DOMAIN ProfileSeq] :
                    \A i, j \in VMIds : i < j => f[i] <= f[j] },
        at \in Placements }

\* the PM lists given in the order of their ids
NarrowInputPMs == { P \in InputPMs : \A i \in DOMAIN P : P[i].id = i }

\* the VM lists in which every VM is on a PM, or none is, the first VM not
\* being on the last PM
NarrowInputVMs ==
    { V \in InputVMs :
        /\ V[1].pm_id = None \/ V[Len(V)].pm_id # None
        /\ V[1].pm_id # Cardinality(PMIds) }

\* {x.id: x for x in xs}
dict_of(xs) ==
    [k \in { xs[i].id : i \in DOMAIN xs } |->
        xs[CHOOSE i \in DOMAIN xs :
              xs[i].id = k /\ \A j \in DOMAIN xs : xs[j].id = k => j <= i]]

\* ----------------------------------------------------------------- actions
\* a field that has no value yet: a number, or anything else
NoNumber == 0 - 1
NoValue == "none"

\* no call of a read-only function made yet
NoCall == [name |-> "none"]

Init ==
    /\ pc = "new"
    /\ in_pms \in InputPMs
    /\ in_vms \in InputVMs
    /\ G = NoNumber
    /\ sample_ratio = NoNumber
    /\ max_iter = NoNumber
    /\ pms = <<>>
    /\ vms = <<>>
    /\ migration_count = NoNumber
    /\ iter_count = NoNumber
    /\ improved_anything = FALSE
    /\ result = <<>>
    /\ history = <<>>
    /\ fn = NoCall
    /\ twin = NoValue

\* GammaFFSolver.__init__(pms, vms, G, sample_ratio, max_iter, rng): raises
\* out of _sync_vm_pm_lists, or builds the engine
Construct ==
    /\ pc = "new"
    /\ \E g \in 1..MaxG, ratio \in SampleRatios, iters \in 0..MaxIter :
          /\ G' = g
          /\ sample_ratio' = ratio
          /\ max_iter' = iters
    /\ migration_count' = 0
    /\ IF sync_raises(dict_of(in_pms), dict_of(in_vms))
       THEN /\ pc' = "error"
            /\ result' = << sync_error(dict_of(in_pms), dict_of(in_vms)) >>
            /\ UNCHANGED <<pms, vms>>
       ELSE /\ pc' = "ready"
            /\ vms' = dict_of(in_vms)
            /\ pms' = sync_vm_pm_lists(dict_of(in_pms), dict_of(in_vms))
            /\ UNCHANGED result
    /\ UNCHANGED <<in_pms, in_vms, iter_count, improved_anything,
                   history, fn, twin>>

\* mutant: one pass too many
loop_condition_inclusive(i, m) == i <= m

\* run(): while iter_count < self.max_iter
loop_condition(i, m) == i < m

\* run(): entry, up to the first test of the loop condition
RunCall ==
    /\ pc = "ready"
    /\ iter_count' = 0
    /\ improved_anything' = FALSE
    /\ IF loop_condition(0, max_iter)
       THEN /\ pc' = "running"
            /\ UNCHANGED result
       ELSE /\ pc' = "done"
            /\ result' = <<FALSE>>
    /\ fn' = NoCall
    /\ UNCHANGED <<in_pms, in_vms, pms, vms, G, sample_ratio, max_iter,
                   migration_count, history, twin>>

\* what the log keeps of one call of _single_iteration
Entry(ok, target, queue, r, dr) ==
    [ok |-> ok, target |-> target, queue |-> queue, drained_pms |-> dr,
     before_pms |-> pms, before_vms |-> vms, before_count |-> migration_count,
     live_pms |-> r.live_pms, live_vms |-> r.live_vms]

\* run(): one pass of the loop whose _single_iteration finds no PM with
\* residents and returns False; the loop breaks and run() returns
IterateNoCandidate ==
    /\ pc = "running"
    /\ candidate_pms(pms) = <<>>
    /\ iter_count' = iter_count + 1
    /\ pc' = "done"
    /\ result' = <<improved_anything>>
    /\ history' = Append(history,
                    Entry(FALSE, None, <<>>, [live_pms |-> pms, live_vms |-> vms], pms))
    /\ UNCHANGED <<in_pms, in_vms, pms, vms, G, sample_ratio, max_iter,
                   migration_count, improved_anything, fn, twin>>

\* run(): one pass of the loop, _single_iteration with rng outcome d and the
\* queue in order q. A failed iteration breaks the loop and run() returns; a
\* committed one goes on to the loop condition, and run() returns when the
\* budget is used up
Iterate ==
    /\ pc = "running"
    /\ candidate_pms(pms) # <<>>
    /\ \E e \in { pm_empty_of(pms) } :
       \E d \in Draws(pms, e, sample_ratio) :
       \E q \in QueueOrders(queue_ids(pms, e, d), vms) :
       \E r \in { single_iteration(pms, vms, migration_count, G, e, d, q) } :
              /\ pms' = r.pms
              /\ vms' = r.vms
              /\ migration_count' = r.migration_count
              /\ iter_count' = iter_count + 1
              /\ history' = Append(history, Entry(r.ok, e, q, r, drained(pms, e, d)))
              /\ IF r.ok
                 THEN /\ improved_anything' = TRUE
                      /\ IF loop_condition(iter_count + 1, max_iter)
                         THEN UNCHANGED <<pc, result>>
                         ELSE pc' = "done" /\ result' = <<TRUE>>
                 ELSE /\ pc' = "done"
                      /\ result' = <<improved_anything>>
                      /\ UNCHANGED improved_anything
    /\ UNCHANGED <<in_pms, in_vms, G, sample_ratio, max_iter, fn, twin>>

Next == Construct \/ RunCall \/ IterateNoCandidate \/ Iterate

Spec == Init /\ [][Next]_vars

\* the top of a pass of run()'s loop: iter_count += 1
LoopPass == pc = "running" /\ iter_count' = iter_count + 1

\* the constructor's arguments taken from the narrower lists
FairInit == Init /\ in_pms \in NarrowInputPMs /\ in_vms \in NarrowInputVMs

\* the engine on the narrower lists
SpecNarrow == FairInit /\ [][Next]_vars

\* run() is synchronous: while it is in its loop, the next pass is executed
SpecFair == SpecNarrow /\ WF_iter_count(LoopPass)

\* the engine on the narrower VM lists, the hosts given in every order, with
\* the smaller memory
OrdersInit ==
    /\ Init
    /\ in_vms \in NarrowInputVMs
    /\ \A i \in DOMAIN in_pms : \A c \in MemCaps : in_pms[i].mem_cap <= c

SpecOrders == OrdersInit /\ [][Next]_vars

\* the engine on every VM list, the hosts given in the order of their ids
ListedInit == Init /\ in_pms \in NarrowInputPMs

SpecListed == ListedInit /\ [][Next]_vars

\* ------------------------------------------------------------ the audit
\* mutant: the audit switching every PM off
pms_after_check_deactivating(P) ==
    [p \in DOMAIN P |-> [P[p] EXCEPT !.active = FALSE]]

\* self._pms after check_feasibility(): the call builds lists of its own
\* (vms_on_pm, errors) and assigns to no field of the engine
pms_after_check_feasibility(P) == P

\* check_feasibility() raises KeyError at self._vms[vid] when a PM lists an
\* id that is no key of self._vms
check_raises(P, V) ==
    \E p \in DOMAIN P : \E i \in DOMAIN P[p].vms : P[p].vms[i] \notin DOMAIN V

\* a call of check_feasibility() on the engine, before run() or after it has
\* returned; fn keeps what the call returned and, when the call before it was
\* one of check_feasibility() too, what that one returned
CheckFeasibility ==
    /\ pc \in {"ready", "done"}
    /\ fn' = [name |-> "check_feasibility",
              raised |-> check_raises(pms, vms),
              ret |-> IF check_raises(pms, vms) THEN <<>>
                      ELSE check_feasibility(pms, vms, G),
              prev |-> IF fn.name = "check_feasibility" THEN <<fn.ret>> ELSE <<>>]
    /\ pms' = pms_after_check_feasibility(pms)
    /\ UNCHANGED <<pc, in_pms, in_vms, vms, G, sample_ratio, max_iter,
                   migration_count, iter_count, improved_anything, result,
                   history, twin>>

AuditNext == Next \/ CheckFeasibility

SpecAudit == FairInit /\ [][AuditNext]_vars

\* ------------------------------------------------- the two-host scenario
\* hosts A (id 1) and B (id 2) of capacity CPU = 10, MEM = 10 and three VMs
\* (u_c, u_r, mem) = (3, 1, 2), all on A; quantities in tenths, so that no
\* sum of them lies within the tolerance of a capacity
ScenarioInit ==
    /\ pc = "new"
    /\ in_pms \in { [i \in DOMAIN o |-> PM(o[i], 100, 100, <<>>, TRUE)] :
                      o \in Orders(PMIds) }
    /\ in_vms = [i \in 1..3 |-> VM(i, 30, 10, 20, 1)]
    /\ G = NoNumber
    /\ sample_ratio = NoNumber
    /\ max_iter = NoNumber
    /\ pms = <<>>
    /\ vms = <<>>
    /\ migration_count = NoNumber
    /\ iter_count = NoNumber
    /\ improved_anything = FALSE
    /\ result = <<>>
    /\ history = <<>>
    /\ fn = NoCall
    /\ twin = NoValue

\* host A always has residents, so every iteration has a candidate
ScenarioNext == Construct \/ RunCall \/ Iterate

SpecScenario == ScenarioInit /\ [][ScenarioNext]_vars

\* --------------------------------------------- inputs far from the tolerance
\* two hosts in either order, of CPU capacity 2 or 3 and MEM capacity 10, and
\* three VMs of u_c = 1, u_r = 0 or 1 and mem = 1, each on one of the hosts;
\* quantities in hundredths, so that no sum of them lies within the
\* tolerance of a capacity
CoarseInit ==
    /\ pc = "new"
    /\ in_pms \in { [i \in DOMAIN o |-> PM(o[i], c[o[i]], 1000, <<>>, TRUE)] :
                      o \in Orders(PMIds), c \in [PMIds -> {200, 300}] }
    /\ in_vms \in { [i \in 1..3 |-> VM(i, 100, r[i], 100, h[i])] :
                      r \in [1..3 -> {0, 100}], h \in [1..3 -> PMIds] }
    /\ G = NoNumber
    /\ sample_ratio = NoNumber
    /\ max_iter = NoNumber
    /\ pms = <<>>
    /\ vms = <<>>
    /\ migration_count = NoNumber
    /\ iter_count = NoNumber
    /\ improved_anything = FALSE
    /\ result = <<>>
    /\ history = <<>>
    /\ fn = NoCall
    /\ twin = NoValue

\* every VM is on a host, so every iteration has a candidate
SpecCoarse == CoarseInit /\ [][ScenarioNext]_vars

\* ------------------------------------- two engines built from equal arguments
\* the engine of the variables, as a record
Engine ==
    [pc |-> pc, pms |-> pms, vms |-> vms, migration_count |-> migration_count,
     iter_count |-> iter_count, improved_anything |-> improved_anything,
     result |-> result]

\* GammaFFSolver.__init__ as a function of its arguments
constructed(P, V) ==
    IF sync_raises(dict_of(P), dict_of(V))
    THEN [pc |-> "error", pms |-> <<>>, vms |-> <<>>, migration_count |-> 0,
          iter_count |-> NoNumber, improved_anything |-> FALSE,
          result |-> << sync_error(dict_of(P), dict_of(V)) >>]
    ELSE [pc |-> "ready", pms |-> sync_vm_pm_lists(dict_of(P), dict_of(V)),
          vms |-> dict_of(V), migration_count |-> 0,
          iter_count |-> NoNumber, improved_anything |-> FALSE, result |-> <<>>]

\* run() up to the first test of the loop condition, on engine E
run_entry(E, m) ==
    [E EXCEPT !.iter_count = 0, !.improved_anything = FALSE,
              !.pc = IF loop_condition(0, m) THEN "running" ELSE "done",
              !.result = IF loop_condition(0, m) THEN <<>> ELSE <<FALSE>>]

\* one pass of run()'s loop on engine E, r being what _single_iteration did
run_pass(E, m, r) ==
    [pc |-> IF r.ok /\ loop_condition(E.iter_count + 1, m) THEN "running" ELSE "done",
     pms |-> r.pms, vms |-> r.vms, migration_count |-> r.migration_count,
     iter_count |-> E.iter_count + 1,
     improved_anything |-> (r.ok \/ E.improved_anything),
     result |-> IF r.ok /\ loop_condition(E.iter_count + 1, m)
                THEN <<>> ELSE << (r.ok \/ E.improved_anything) >>]

\* the positions rng.sample can pick in one pass of engine E
PassDraws(E, ratio) ==
    IF candidate_pms(E.pms) = <<>> THEN { [p \in DOMAIN E.pms |-> {}] }
    ELSE PosDraws(E.pms, pm_empty_of(E.pms), ratio)

\* the engines one pass of run()'s loop can leave, rng having picked the
\* positions pd: one engine for each order list(set(...)) can give the queue
Passes(E, m, g, pd) ==
    IF candidate_pms(E.pms) = <<>>
    THEN { run_pass(E, m, [ok |-> FALSE, pms |-> E.pms, vms |-> E.vms,
                           migration_count |-> E.migration_count]) }
    ELSE { run_pass(E, m, single_iteration(E.pms, E.vms, E.migration_count, g,
                            pm_empty_of(E.pms), sampled_at(E.pms, pd), q)) :
             q \in QueueOrders(queue_ids(E.pms, pm_empty_of(E.pms),
                                         sampled_at(E.pms, pd)), E.vms) }

\* len(pm.vms) of every PM: what the calls of rng.sample in a pass depend on
lengths(P) == [p \in DOMAIN P |-> Len(P[p].vms)]

\* the second engine lives in another interpreter: another process running the
\* same program on the same input with the same seed. in_step records that
\* both random sources have been asked the same questions so far, and so have
\* given the same answers
PairInit ==
    /\ pc = "new"
    /\ in_pms \in NarrowInputPMs
    /\ in_vms \in NarrowInputVMs
    /\ G = NoNumber
    /\ sample_ratio = NoNumber
    /\ max_iter = NoNumber
    /\ pms = <<>>
    /\ vms = <<>>
    /\ migration_count = NoNumber
    /\ iter_count = NoNumber
    /\ improved_anything = FALSE
    /\ result = <<>>
    /\ history = <<>>
    /\ fn = NoCall
    /\ twin = [pc |-> "new", pms |-> <<>>, vms |-> <<>>,
               migration_count |-> NoNumber, iter_count |-> NoNumber,
               improved_anything |-> FALSE, result |-> <<>>, in_step |-> TRUE]

\* the engine of the variables set to record E
BecomeEngine(E) ==
    /\ pc' = E.pc
    /\ pms' = E.pms
    /\ vms' = E.vms
    /\ migration_count' = E.migration_count
    /\ iter_count' = E.iter_count
    /\ improved_anything' = E.improved_anything
    /\ result' = E.result

\* the second engine set to record E
BecomeTwin(E, in_step) ==
    twin' = [pc |-> E.pc, pms |-> E.pms, vms |-> E.vms,
             migration_count |-> E.migration_count, iter_count |-> E.iter_count,
             improved_anything |-> E.improved_anything, result |-> E.result,
             in_step |-> in_step]

\* both processes construct their engine from the same arguments
PairConstruct ==
    /\ pc = "new"
    /\ \E g \in 1..MaxG, ratio \in SampleRatios, iters \in 0..MaxIter :
          /\ G' = g
          /\ sample_ratio' = ratio
          /\ max_iter' = iters
    /\ BecomeEngine(constructed(in_pms, in_vms))
    /\ BecomeTwin(constructed(in_pms, in_vms), TRUE)
    /\ UNCHANGED <<in_pms, in_vms, history, fn>>

\* both processes call run()
PairRunCall ==
    /\ pc = "ready"
    /\ BecomeEngine(run_entry(Engine, max_iter))
    /\ BecomeTwin(run_entry(twin, max_iter), twin.in_step)
    /\ UNCHANGED <<in_pms, in_vms, G, sample_ratio, max_iter, history, fn>>

\* each engine that is in its loop executes one pass. While the two random
\* sources are in step and are asked for samples of the same sizes, they pick
\* the same positions; the order of the queue's ties is each process's own
PairIterate ==
    /\ pc = "running" \/ twin.pc = "running"
    /\ twin.in_step
    /\ \E same \in { pc = "running" /\ twin.pc = "running" /\ twin.in_step
                        /\ lengths(pms) = lengths(twin.pms) } :
       \E pd1 \in PassDraws(Engine, sample_ratio) :
       \E pd2 \in IF same THEN {pd1} ELSE PassDraws(twin, sample_ratio) :
       \E as \in { IF pc = "running"
                   THEN Passes(Engine, max_iter, G, pd1) ELSE {Engine} } :
       \E bs \in { IF twin.pc = "running"
                   THEN Passes(twin, max_iter, G, pd2) ELSE {twin} } :
       \E a \in as, b \in bs :
          /\ BecomeEngine(a)
          /\ BecomeTwin(b, twin.in_step /\ (same \/ pc # "running"
                                                 \/ twin.pc # "running"))
    /\ UNCHANGED <<in_pms, in_vms, G, sample_ratio, max_iter, history, fn>>

PairNext == PairConstruct \/ PairRunCall \/ PairIterate

SpecPair == PairInit /\ [][PairNext]_vars

\* ------------------------------------------- the pure functions, on their own
\* all_vms of the calls: four VMs; two of equal radius, one of radius 0
FnVMs ==
    [i \in 1..4 |->
        CASE i = 1 -> VM(1, 1, 0, 1, None)
          [] i = 2 -> VM(2, 0, 2, 1, None)
          [] i = 3 -> VM(3, 1, 1, 2, None)
          [] i = 4 -> VM(4, 2, 1, 0, None)]

FnInit ==
    /\ pc = "fn"
    /\ vms = FnVMs
    /\ pms \in { [p \in {1} |-> PM(1, cc, mc, <<>>, TRUE)] : cc \in CpuCaps, mc \in MemCaps }
    /\ G \in 0..MaxG
    /\ fn = NoCall
    /\ in_pms = <<>>
    /\ in_vms = <<>>
    /\ sample_ratio = NoNumber
    /\ max_iter = NoNumber
    /\ migration_count = NoNumber
    /\ iter_count = NoNumber
    /\ improved_anything = FALSE
    /\ result = <<>>
    /\ history = <<>>
    /\ twin = NoValue

FnRest == <<pc, in_pms, in_vms, vms, G, sample_ratio, max_iter, migration_count,
            iter_count, improved_anything, result, history, twin>>

\* the caller puts one more VM id on the PM's list (ids may repeat in a list
\* handed to the pure functions)
AddResident ==
    /\ pc = "fn"
    /\ Len(pms[1].vms) < MaxLen
    /\ \E vid \in DOMAIN vms : pms' = [pms EXCEPT ![1].vms = Append(@, vid)]
    /\ UNCHANGED <<fn, FnRest>>

\* robust_cpu_usage(vms_on_pm, G) on the VMs of the PM's list
CallRobust ==
    /\ pc = "fn"
    /\ LET arg == MapSeq(pms[1].vms, LAMBDA vid : vms[vid])
       IN  fn' = [name |-> "robust_cpu_usage", vms_on_pm |-> arg, G |-> G,
                  ret |-> robust_cpu_usage(arg, G)]
    /\ UNCHANGED <<pms, FnRest>>

\* pm.vms after can_place_vm_on_pm(vm, pm, ...): the call works on a list of
\* its own and leaves pm.vms as it was
pm_vms_after_can_place(vm, pm) == pm.vms

\* can_place_vm_on_pm(vm, pm, all_vms, G)
CallCanPlace ==
    /\ pc = "fn"
    /\ \E vid \in DOMAIN vms :
          /\ fn' = [name |-> "can_place_vm_on_pm", vm |-> vms[vid], pm |-> pms[1],
                    G |-> G, ret |-> can_place_vm_on_pm(vms[vid], pms[1], vms, G)]
          /\ pms' = [pms EXCEPT ![1].vms = pm_vms_after_can_place(vms[vid], pms[1])]
    /\ UNCHANGED FnRest

FnNext == AddResident \/ CallRobust \/ CallCanPlace

SpecFn == FnInit /\ [][FnNext]_vars

\* -------------------------------------------------- the Gamma tables
\* the rows of the CSV file: columns n, gamma, p_violate (in percent); the
\* file has no row for the largest n asked for
RowNs == 1..(MaxN - 1)
RowGammas == {1, 3}
RowPs == {1, 5}
Rows == [n : RowNs, gamma : RowGammas, p_violate : RowPs]

\* the thresholds of the calls, in percent
Thresholds == {5, 9}

\* frame['gamma'].min() and .max() of a frame that has rows
RECURSIVE gamma_min(_)
gamma_min(frame) ==
    IF Len(frame) = 1 THEN frame[1].gamma
    ELSE Min(frame[1].gamma, gamma_min(Tail(frame)))

RECURSIVE gamma_max(_)
gamma_max(frame) ==
    IF Len(frame) = 1 THEN frame[1].gamma
    ELSE Max(frame[1].gamma, gamma_max(Tail(frame)))

\* grouped.get_group(n): the rows of n, in file order; no row: KeyError
get_group(table, n) == SelectSeq(table, LAMBDA r : r.n = n)

\* mutant: the threshold met by p_violate <= p_sla
gamma_map_entry_inclusive(table, n, p_sla) ==
    LET frame == get_group(table, n)
        suitable_rows == SelectSeq(frame, LAMBDA r : r.p_violate <= p_sla)
    IN  IF frame = <<>> THEN n
        ELSE IF suitable_rows # <<>> THEN gamma_min(suitable_rows)
        ELSE gamma_max(frame)

\* create_gamma_map: the body of the loop, the value stored at gamma_map[n]
gamma_map_entry(table, n, p_sla) ==
    LET frame == get_group(table, n)
        suitable_rows == SelectSeq(frame, LAMBDA r : r.p_violate < p_sla)
    IN  IF frame = <<>> THEN n
        ELSE IF suitable_rows # <<>> THEN gamma_min(suitable_rows)
        ELSE gamma_max(frame)

\* create_gamma_map(filepath, max_vms, p_sla) on a file that exists: the list
\* gamma_map, by index
create_gamma_map(table, max_vms, p_sla) ==
    [n \in 0..max_vms |-> IF n = 0 THEN 0 ELSE gamma_map_entry(table, n, p_sla)]

\* a row put in its place of a frame sorted by gamma; rows of equal gamma
\* keep their order
RECURSIVE insert_by_gamma(_, _)
insert_by_gamma(r, frame) ==
    IF frame = <<>> THEN <<r>>
    ELSE IF r.gamma < frame[1].gamma THEN <<r>> \o frame
    ELSE <<frame[1]>> \o insert_by_gamma(r, Tail(frame))

RECURSIVE sort_by_gamma(_)
sort_by_gamma(frame) ==
    IF frame = <<>> THEN <<>>
    ELSE insert_by_gamma(frame[Len(frame)],
                         sort_by_gamma(SubSeq(frame, 1, Len(frame) - 1)))

\* Gamma_list.sort_values(by=['n', 'gamma']) and then Gamma_list['n'] == i
sorted_frame(table, i) == sort_by_gamma(SelectSeq(table, LAMBDA r : r.n = i))

\* create_gamma_list: the for ... else over the rows of frame: the position j
\* (from 0) of the first row with p_violate below the threshold, len(frame)
\* when there is none
gamma_list_entry(frame, p) ==
    LET below == { j \in 0..(Len(frame) - 1) : frame[j + 1].p_violate < p }
    IN  IF below # {} THEN CHOOSE j \in below : \A k \in below : j <= k
        ELSE Len(frame)

\* create_gamma_list(max_num, p_violate): the list N_Gamma_map of pairs
create_gamma_list(table, max_num, p) ==
    [k \in 1..(max_num + 1) |->
        IF k = 1 THEN <<0, 0>>
        ELSE << k - 1, gamma_list_entry(sorted_frame(table, k - 1), p) >>]

GammaInit ==
    /\ pc = "gamma"
    /\ fn = [name |-> "none", table |-> <<>>]
    /\ vms = <<>>
    /\ pms = <<>>
    /\ G = NoNumber
    /\ in_pms = <<>>
    /\ in_vms = <<>>
    /\ sample_ratio = NoNumber
    /\ max_iter = NoNumber
    /\ migration_count = NoNumber
    /\ iter_count = NoNumber
    /\ improved_anything = FALSE
    /\ result = <<>>
    /\ history = <<>>
    /\ twin = NoValue

\* one more row in the CSV file
AddRow ==
    /\ pc = "gamma"
    /\ Len(fn.table) < MaxRows
    /\ \E r \in Rows : fn' = [name |-> "none", table |-> Append(fn.table, r)]
    /\ UNCHANGED <<pms, FnRest>>

\* create_gamma_map(filepath, max_vms, p_sla)
CallCreateGammaMap ==
    /\ pc = "gamma"
    /\ \E m \in 0..MaxN, p \in Thresholds :
          fn' = [name |-> "create_gamma_map", table |-> fn.table,
                 max |-> m, p |-> p, ret |-> create_gamma_map(fn.table, m, p)]
    /\ UNCHANGED <<pms, FnRest>>

\* create_gamma_list(max_num, p_violate)
CallCreateGammaList ==
    /\ pc = "gamma"
    /\ \E m \in 0..MaxN, p \in Thresholds :
          fn' = [name |-> "create_gamma_list", table |-> fn.table,
                 max |-> m, p |-> p, ret |-> create_gamma_list(fn.table, m, p)]
    /\ UNCHANGED <<pms, FnRest>>

GammaNext == AddRow \/ CallCreateGammaMap \/ CallCreateGammaList

SpecGamma == GammaInit /\ [][GammaNext]_vars

\* ------------------------------------------- gamma_first_fit (Gamma_FF.py)
\* lists are Python lists: element k of xs is at(xs, k), k counted from 0
at(xs, k) == xs[k + 1]

\* (uc, ur, mem) of the VMs of a data set, uc and ur in thousandths of a core
FFProfiles == { <<100, 800, 1>>, <<200, 0, 1>>, <<300, 0, 2>>, <<100, 200, 2>> }

\* total_cpu of a host, its threshold in percent, its total_memory
FFCpuTotals == {1}
FFThresholds == {80, 100}
FFMemTotals == {2, 3}

\* the hosts of a data set
FFHosts == 0..1

\* the gamma maps: gamma_map[0] = 0, then one Gamma for n = 1, 2, ...
GammaMaps ==
    UNION { { m \in [1..L -> 0..MaxG] : m[1] = 0 } : L \in 1..3 }

\* the data sets of MaxLen VMs
FFData ==
    { [vm_num |-> MaxLen, host_num |-> Cardinality(FFHosts),
       uc |-> [i \in 1..MaxLen |-> pr[i][1]],
       ur |-> [i \in 1..MaxLen |-> pr[i][2]],
       mem |-> [i \in 1..MaxLen |-> pr[i][3]],
       cpu_total |-> [j \in 1..Cardinality(FFHosts) |-> ct],
       mem_total |-> [j \in 1..Cardinality(FFHosts) |-> mt],
       threshold |-> [j \in 1..Cardinality(FFHosts) |-> th[j - 1]]] :
        pr \in [1..MaxLen -> FFProfiles], ct \in FFCpuTotals, mt \in FFMemTotals,
        th \in [FFHosts -> FFThresholds] }

\* int(cpu_total[j] * threshold[j] * 1000), the threshold being in percent
ff_cpu_cap(data, j) == (at(data.cpu_total, j) * at(data.threshold, j) * 1000) \div 100

\* gamma_map[n] if n < len(gamma_map) else n
ff_gamma(gamma_map, n) == IF n < Len(gamma_map) THEN at(gamma_map, n) ELSE n

\* the test of the inner loop: VM i fits host j in state hs
ff_fits(data, gamma_map, hs, i, j) ==
    LET n == Len(at(hs, j).vms) + 1
        gamma == ff_gamma(gamma_map, n)
        cpu_load == at(hs, j).cpu_used + at(data.uc, i) + at(data.ur, i) * gamma
        mem_load == at(hs, j).mem_used + at(data.mem, i)
    IN  cpu_load <= ff_cpu_cap(data, j) /\ mem_load <= at(data.mem_total, j)

\* the hosts that admit VM i, and the first of them
ff_admitting(data, gamma_map, hs, i) ==
    { j \in 0..(data.host_num - 1) : ff_fits(data, gamma_map, hs, i, j) }

\* hosts_state after VM i is put on host j
ff_put(data, gamma_map, hs, i, j) ==
    [hs EXCEPT ![j + 1] =
        [cpu_used |-> @.cpu_used + at(data.uc, i),
         mem_used |-> @.mem_used + at(data.mem, i),
         gamma |-> ff_gamma(gamma_map, Len(@.vms) + 1),
         vms |-> Append(@.vms, i)]]

FFInit ==
    /\ pc = "ff"
    /\ \E data \in FFData, gamma_map \in GammaMaps :
          fn = [name |-> "gamma_first_fit", data |-> data, gamma_map |-> gamma_map,
                i |-> 0,
                hosts_state |-> [j \in 1..data.host_num |->
                                   [cpu_used |-> 0, mem_used |-> 0, vms |-> <<>>, gamma |-> 0]],
                vm_assignment |-> [i \in 1..data.vm_num |-> 0 - 1],
                unable |-> <<>>]
    /\ vms = <<>>
    /\ pms = <<>>
    /\ G = NoNumber
    /\ in_pms = <<>>
    /\ in_vms = <<>>
    /\ sample_ratio = NoNumber
    /\ max_iter = NoNumber
    /\ migration_count = NoNumber
    /\ iter_count = NoNumber
    /\ improved_anything = FALSE
    /\ result = <<>>
    /\ history = <<>>
    /\ twin = NoValue

\* one pass of the outer loop in which a host admits VM i: the VM goes on the
\* first such host
FFPlace ==
    /\ pc = "ff"
    /\ fn.i < fn.data.vm_num
    /\ \E A \in { ff_admitting(fn.data, fn.gamma_map, fn.hosts_state, fn.i) } :
          /\ A # {}
          /\ \E j \in { CHOOSE k \in A : \A k2 \in A : k <= k2 } :
                fn' = [fn EXCEPT
                         !.hosts_state = ff_put(fn.data, fn.gamma_map, @, fn.i, j),
                         !.vm_assignment = [@ EXCEPT ![fn.i + 1] = j],
                         !.i = @ + 1]
    /\ UNCHANGED <<pms, FnRest>>

\* one pass of the outer loop in which no host admits VM i: "Unable to
\* distribute VM i" is printed and the VM keeps -1
FFUnable ==
    /\ pc = "ff"
    /\ fn.i < fn.data.vm_num
    /\ ff_admitting(fn.data, fn.gamma_map, fn.hosts_state, fn.i) = {}
    /\ fn' = [fn EXCEPT !.unable = Append(@, fn.i), !.i = @ + 1]
    /\ UNCHANGED <<pms, FnRest>>

FFNext == FFPlace \/ FFUnable

SpecFF == FFInit /\ [][FFNext]_vars

\* ----------------------------------------------- reference definitions
\* the sum of f over the index set I
RECURSIVE IdxSum(_, _)
IdxSum(f, I) ==
    IF I = {} THEN 0
    ELSE LET i == CHOOSE x \in I : TRUE IN f[i] + IdxSum(f, I \ {i})

SetMax(S) == CHOOSE x \in S : \A y \in S : y <= x

SumCenters(l) == IdxSum([i \in DOMAIN l |-> l[i].u_c], DOMAIN l)
SumRadii(l) == IdxSum([i \in DOMAIN l |-> l[i].u_r], DOMAIN l)
SumMem(l) == IdxSum([i \in DOMAIN l |-> l[i].mem], DOMAIN l)

\* the sum of the min(k, n) largest radii of the n VMs of l: the largest sum
\* any min(k, n) of them have
LargestRadiiSum(l, k) ==
    SetMax({ IdxSum([i \in DOMAIN l |-> l[i].u_r], I) :
               I \in { J \in SUBSET DOMAIN l : Cardinality(J) = Min(k, Len(l)) } })

\* every ordering of the list l
Perms(l) == { [i \in DOMAIN l |-> l[o[i]]] : o \in Orders(DOMAIN l) }

\* the hypothetical set of a recorded can_place_vm_on_pm call
Hypothetical(call) ==
    Append([i \in DOMAIN call.pm.vms |-> vms[call.pm.vms[i]]], call.vm)

\* ------------------------------------------------------------------ claims
\* C7: can_place_vm_on_pm returns True iff the robust CPU of the residents
\* plus vm is <= cpu_cap + eps and their memory is <= mem_cap + eps (the same
\* eps), False otherwise; and the call changes no PM and no VM.
C7_CanPlaceIff ==
    /\ [](fn.name = "can_place_vm_on_pm" =>
            fn.ret = ( /\ SumCenters(Hypothetical(fn))
                            + LargestRadiiSum(Hypothetical(fn), fn.G)
                          <= fn.pm.cpu_cap + Eps
                       /\ SumMem(Hypothetical(fn)) <= fn.pm.mem_cap + Eps ))
    /\ [][CallCanPlace => (pms' = pms /\ vms' = vms)]_vars

\* a call admitted with the memory at mem_cap + eps exactly, residents present
C7_Witness ==
    /\ fn.name = "can_place_vm_on_pm"
    /\ fn.ret = TRUE
    /\ fn.pm.vms # <<>>
    /\ SumMem(Hypothetical(fn)) = fn.pm.mem_cap + Eps

\* C8: robust_cpu_usage is the sum of the centers plus the sum of the
\* min(G, n) largest radii, 0 for no VM, and the same for every ordering.
C8_RobustValue ==
    fn.name = "robust_cpu_usage" =>
        /\ fn.ret = SumCenters(fn.vms_on_pm) + LargestRadiiSum(fn.vms_on_pm, fn.G)
        /\ (fn.vms_on_pm = <<>> => fn.ret = 0)
        /\ \A l \in Perms(fn.vms_on_pm) : robust_cpu_usage(l, fn.G) = fn.ret

\* three VMs, budget 1, and two distinct VMs share the largest radius
C8_Witness ==
    /\ fn.name = "robust_cpu_usage"
    /\ Len(fn.vms_on_pm) = 3
    /\ fn.G = 1
    /\ \E i, j \in DOMAIN fn.vms_on_pm :
          /\ fn.vms_on_pm[i].id # fn.vms_on_pm[j].id
          /\ fn.vms_on_pm[i].u_r = fn.vms_on_pm[j].u_r
          /\ \A k \in DOMAIN fn.vms_on_pm : fn.vms_on_pm[k].u_r <= fn.vms_on_pm[i].u_r

\* the number of VMs of l with a positive radius
PositiveRadii(l) == Cardinality({ i \in DOMAIN l : l[i].u_r > 0 })

\* C9 as stated: robust_cpu_usage lies between sum(u_c) and sum(u_c) +
\* sum(u_r) and is strictly increasing in the budget G over 0..n.
C9_StrictlyIncreasing ==
    fn.name = "robust_cpu_usage" =>
        /\ SumCenters(fn.vms_on_pm) <= fn.ret
        /\ fn.ret <= SumCenters(fn.vms_on_pm) + SumRadii(fn.vms_on_pm)
        /\ \A g \in 0..Len(fn.vms_on_pm) :
              /\ fn.G < g => fn.ret < robust_cpu_usage(fn.vms_on_pm, g)
              /\ (g < fn.G /\ fn.G <= Len(fn.vms_on_pm)) =>
                    robust_cpu_usage(fn.vms_on_pm, g) < fn.ret

\* C9 amended: robust_cpu_usage lies between sum(u_c) and sum(u_c) +
\* sum(u_r) and is non-decreasing in the budget: for 0 <= G < G' <= n,
\* usage(G) <= usage(G'), and usage(G) < usage(G') exactly when more than G
\* of the VMs have u_r > 0.
C9_NonDecreasing ==
    fn.name = "robust_cpu_usage" =>
        /\ SumCenters(fn.vms_on_pm) <= fn.ret
        /\ fn.ret <= SumCenters(fn.vms_on_pm) + SumRadii(fn.vms_on_pm)
        /\ \A g \in 0..Len(fn.vms_on_pm) :
              fn.G < g =>
                 /\ fn.ret <= robust_cpu_usage(fn.vms_on_pm, g)
                 /\ (fn.ret < robust_cpu_usage(fn.vms_on_pm, g))
                       <=> (PositiveRadii(fn.vms_on_pm) > fn.G)

\* a larger budget within n that adds nothing: the next radius is 0
C9_Witness ==
    /\ fn.name = "robust_cpu_usage"
    /\ fn.G < Len(fn.vms_on_pm)
    /\ fn.ret = robust_cpu_usage(fn.vms_on_pm, fn.G + 1)
    /\ PositiveRadii(fn.vms_on_pm) > 0

\* C10: a VM refused by a PM with residents R is refused by the same PM with
\* any residents that contain R (same capacities, same G).
C10_AntiMonotone ==
    (fn.name = "can_place_vm_on_pm" /\ fn.ret = FALSE) =>
        \A l \in Perms(pms[1].vms) :
            ~can_place_vm_on_pm(fn.vm, [pms[1] EXCEPT !.vms = l], vms, G)

\* a refusal recorded, and the PM has got further residents since
C10_Witness ==
    /\ fn.name = "can_place_vm_on_pm"
    /\ fn.ret = FALSE
    /\ Len(pms[1].vms) > Len(fn.pm.vms)
    /\ fn.pm.vms # <<>>

\* ------------------------------------------------ claims about the engine
Built == pc \in {"ready", "running", "done"}

Last(s) == s[Len(s)]

\* the VMs whose pm_id differs between two copies of self._vms
Movers(V1, V2) == { vid \in DOMAIN V1 : V1[vid].pm_id # V2[vid].pm_id }

\* the input of the constructor respects both bounds on every PM, without
\* tolerance
InputFeasible ==
    \A i \in DOMAIN in_pms :
        LET on == SelectSeq(in_vms, LAMBDA vm : vm.pm_id = in_pms[i].id)
        IN  /\ SumCenters(on) + LargestRadiiSum(on, G) <= in_pms[i].cpu_cap
            /\ SumMem(on) <= in_pms[i].mem_cap

\* C1: an iteration in which some queued VM is admitted by no PM leaves every
\* PM's list and active flag, every VM's pm_id and migration_count as they
\* were before the call.
C1_RollbackAtomic ==
    [][ ( /\ Len(history') = Len(history) + 1
          /\ ~Last(history').ok
          /\ Last(history').target # None )
        => ( /\ pms' = pms
             /\ vms' = vms
             /\ migration_count' = migration_count ) ]_vars

\* a failed iteration, on a feasible input, that had drained a PM, sampled
\* from another and already put a VM on another PM than its own
C1_Witness ==
    /\ Built
    /\ InputFeasible
    /\ history # <<>>
    /\ ~Last(history).ok
    /\ Last(history).target # None
    /\ Movers(Last(history).before_vms, Last(history).live_vms) # {}
    /\ \E p \in DOMAIN pms : p # Last(history).target
                             /\ Last(history).live_pms[p].vms # pms[p].vms

\* C2: if every PM respects its CPU and memory bound at construction, then
\* after construction and after every iteration check_feasibility() returns
\* (True, []).
C2_FeasibilitySound ==
    (Built /\ InputFeasible) => check_feasibility(pms, vms, G) = <<TRUE, <<>>>>

\* run() has returned after two committed iterations that moved VMs, from a
\* feasible input, and some PM is filled beyond its nominal CPU capacity
\* (within the tolerance)
C2_Witness ==
    /\ pc = "done"
    /\ InputFeasible
    /\ Len(history) >= 2
    /\ \A i \in DOMAIN history : history[i].ok
    /\ migration_count > 0
    /\ \E p \in DOMAIN pms :
          LET on == MapSeq(pms[p].vms, LAMBDA vid : vms[vid])
          IN  SumCenters(on) + LargestRadiiSum(on, G) = pms[p].cpu_cap + Eps

\* the count of the committed iterations of the log
RECURSIVE CommittedMoves(_)
CommittedMoves(h) ==
    IF h = <<>> THEN 0
    ELSE CommittedMoves(SubSeq(h, 1, Len(h) - 1))
         + (IF Last(h).ok
            THEN Cardinality(Movers(Last(h).before_vms, Last(h).live_vms))
            ELSE 0)

\* C3: migration_count is the sum, over the committed iterations, of the VMs
\* whose pm_id at the end of the iteration differs from the snapshot's; a
\* rolled-back iteration adds 0; migration_count never decreases.
C3_MigrationAccounting ==
    /\ [](Built => migration_count = CommittedMoves(history))
    /\ [][ (pc \in {"ready", "running"}) => (migration_count' >= migration_count) ]_vars

\* a committed iteration that moved VMs, then a rolled-back one that had moved
\* VMs before it failed
C3_Witness ==
    /\ pc = "done"
    /\ Len(history) = 2
    /\ history[1].ok
    /\ Movers(history[1].before_vms, history[1].live_vms) # {}
    /\ ~history[2].ok
    /\ Movers(history[2].before_vms, history[2].live_vms) # {}

\* C4: run() terminates; it executes iterations one after another until the
\* first that fails or until max_iter have been executed (never more than
\* max_iter, none after a failed one), and returns True iff at least one
\* executed iteration succeeded.
C4_RunLoop ==
    /\ [](pc \in {"running", "done"} =>
            /\ iter_count = Len(history)
            /\ Len(history) <= max_iter
            /\ \A i \in 1..(Len(history) - 1) : history[i].ok
            /\ pc = "running" =>
                  /\ Len(history) < max_iter
                  /\ \A i \in DOMAIN history : history[i].ok
            /\ pc = "done" =>
                  /\ \/ Len(history) = max_iter
                     \/ (history # <<>> /\ ~Last(history).ok)
                  /\ result = << \E i \in DOMAIN history : history[i].ok >>)
    /\ [](pc = "running" => ENABLED (IterateNoCandidate \/ Iterate))
    /\ (pc = "running") ~> (pc = "done")

\* run() has returned False after a first iteration that failed, with budget
\* left
C4_Witness ==
    /\ pc = "done"
    /\ result = <<FALSE>>
    /\ Len(history) = 1
    /\ Last(history).target # None
    /\ Len(history) < max_iter

\* the number of lists, and places in them, that hold VM vid
Occurrences(P, vid) ==
    IdxSum([p \in DOMAIN P |-> Cardinality({ i \in DOMAIN P[p].vms : P[p].vms[i] = vid })],
           DOMAIN P)

\* C6 as stated: after construction and after every iteration every VM of the
\* engine is in the resident list of exactly one PM.
C6_EveryVMOnOnePM ==
    Built => \A vid \in DOMAIN vms : Occurrences(pms, vid) = 1

\* C6 amended: after construction and after every iteration (committed or
\* rolled back) every VM constructed with a pm_id is in the resident list of
\* exactly one PM, the one its pm_id names, and a VM constructed with pm_id
\* None is in no list; a VM constructed with a pm_id is in no list only inside
\* an iteration.
C6_PlacedVMOnOnePM ==
    Built =>
        \A i \in DOMAIN in_vms :
            LET vid == in_vms[i].id
            IN  IF in_vms[i].pm_id = None
                THEN Occurrences(pms, vid) = 0 /\ vms[vid].pm_id = None
                ELSE /\ Occurrences(pms, vid) = 1
                     /\ vid \in Range(pms[vms[vid].pm_id].vms)

\* after a rolled-back iteration inside which a queued VM was in no list, and a
\* VM constructed with pm_id None beside
C6_Witness ==
    /\ pc = "done"
    /\ history # <<>>
    /\ ~Last(history).ok
    /\ \E vid \in DOMAIN vms :
          /\ Occurrences(Last(history).live_pms, vid) = 0
          /\ Occurrences(pms, vid) = 1
    /\ \E i \in DOMAIN in_vms : in_vms[i].pm_id = None

\* C5 (as stated): two engines constructed from identical hosts, VMs, G,
\* sample_ratio and max_iter and from random sources seeded identically end
\* run() with the same pm_id for every VM, the same resident set on every host
\* and the same migration_count
C5_Deterministic ==
    (pc = "done" /\ twin.pc = "done" /\ twin.in_step) =>
        /\ \A v \in DOMAIN vms : vms[v].pm_id = twin.vms[v].pm_id
        /\ \A p \in DOMAIN pms : Range(pms[p].vms) = Range(twin.pms[p].vms)
        /\ migration_count = twin.migration_count

\* ---------------------------------------------------------------- C11
\* the VMs of the constructor's argument that name a PM that is not given
Dangling ==
    { i \in DOMAIN in_vms :
        /\ in_vms[i].pm_id # None
        /\ \A j \in DOMAIN in_pms : in_pms[j].id # in_vms[i].pm_id }

\* C11: constructing the engine with a VM whose pm_id is not None and is not
\* the id of a given host raises a ValueError that names the VM and the host
\* id, and there is no engine; otherwise the engine is built, and a VM whose
\* pm_id is None is accepted and is on no host's list
C11_ConstructorFailsFast ==
    pc # "new" =>
        /\ Dangling # {} =>
              /\ pc = "error"
              /\ pms = <<>> /\ vms = <<>>
              /\ \E i \in Dangling :
                    result = << [raised |-> "ValueError", vm |-> in_vms[i].id,
                                 pm |-> in_vms[i].pm_id] >>
        /\ Dangling = {} =>
              /\ pc # "error"
              /\ \A i \in DOMAIN in_vms :
                    in_vms[i].pm_id = None =>
                        /\ in_vms[i].id \in DOMAIN vms
                        /\ \A p \in DOMAIN pms : in_vms[i].id \notin Range(pms[p].vms)

\* a constructor call that raised
C11_Witness == pc = "error" /\ Dangling # {} /\ result # <<>>

\* ---------------------------------------------------------------- C12
\* the iterations of the log whose queue holds a VM that satisfies Big, Big
\* being a predicate of the VM's state before the iteration
QueuedBig(Big(_, _)) ==
    { i \in DOMAIN history :
        \E v \in Range(history[i].queue) :
            Big(history[i].before_vms[v], history[i].before_pms) }

\* mem above the mem_cap of every PM
MemAboveEveryCap(vm, P) == \A p \in DOMAIN P : vm.mem > P[p].mem_cap

\* mem above the mem_cap of every PM by more than the tolerance
MemBeyondEveryCap(vm, P) == \A p \in DOMAIN P : vm.mem > P[p].mem_cap + Eps

\* an iteration of the log that failed, was rolled back and ended run()
FailedAndLast(i) ==
    /\ ~history[i].ok
    /\ i = Len(history)
    /\ pc = "done"
    /\ pms = history[i].before_pms
    /\ vms = history[i].before_vms
    /\ migration_count = history[i].before_count

\* C12 (as stated): an iteration whose queue holds a VM whose mem exceeds the
\* mem_cap of every host fails and is rolled back, run() returns right after
\* it, and the VM and the hosts are as before that iteration
C12_MemAboveCapFails ==
    \A i \in QueuedBig(MemAboveEveryCap) : FailedAndLast(i)

\* C12 (amended): the same for a VM whose mem exceeds the mem_cap of every
\* host by more than the tolerance 1e-9
C12_MemBeyondToleranceFails ==
    \A i \in QueuedBig(MemBeyondEveryCap) : FailedAndLast(i)

\* run() ended by an iteration that queued such a VM after it had re-placed
\* another VM, with iterations to spare
C12_Witness ==
    /\ pc = "done"
    /\ Len(history) < max_iter
    /\ Len(history) \in QueuedBig(MemBeyondEveryCap)
    /\ history[Len(history)].live_vms # history[Len(history)].before_vms

\* ---------------------------------------------------------------- C13
\* run() has returned in the scenario with G = 1 and max_iter = 1
ScenarioRan == pc = "done" /\ G = 1 /\ max_iter = 1

\* every VM of the engine is on PM p, and on no other
AllOn(p) ==
    /\ \A v \in DOMAIN vms : vms[v].pm_id = p
    /\ \A q \in DOMAIN pms :
          Range(pms[q].vms) = IF q = p THEN DOMAIN vms ELSE {}

TabulatedGammas(table, n) ==
    { table[i].gamma : i \in { j \in DOMAIN table : table[j].n = n } }

GammasBelow(table, n, p) ==
    { table[i].gamma :
        i \in { j \in DOMAIN table : table[j].n = n /\ table[j].p_violate < p } }

SetMin(S) == CHOOSE x \in S : \A y \in S : x <= y

\* C14: create_gamma_map holds, at index n in 1..max_vms, the smallest
\* tabulated gamma among the rows for n with p_violate < p_sla; the largest
\* tabulated gamma for n when no row for n is below p_sla; n when the table
\* has no row for n; and 0 at index 0
C14_GammaMapFallback ==
    fn.name = "create_gamma_map" =>
        /\ DOMAIN fn.ret = 0..fn.max
        /\ fn.ret[0] = 0
        /\ \A n \in 1..fn.max :
              fn.ret[n] =
                  IF GammasBelow(fn.table, n, fn.p) # {}
                  THEN SetMin(GammasBelow(fn.table, n, fn.p))
                  ELSE IF TabulatedGammas(fn.table, n) # {}
                       THEN SetMax(TabulatedGammas(fn.table, n))
                       ELSE n

\* a call in which the three cases happen: an n with rows below p_sla that is
\* not given its largest gamma, an n with rows none of which is below p_sla,
\* and an n without rows
C14_Witness ==
    /\ fn.name = "create_gamma_map"
    /\ \E n \in 1..fn.max :
          /\ GammasBelow(fn.table, n, fn.p) # {}
          /\ fn.ret[n] < SetMax(TabulatedGammas(fn.table, n))
    /\ \E n \in 1..fn.max :
          /\ GammasBelow(fn.table, n, fn.p) = {}
          /\ TabulatedGammas(fn.table, n) # {}
    /\ \E n \in 1..fn.max : TabulatedGammas(fn.table, n) = {}

\* ---------------------------------------------------------------- C15
\* C15 (as stated): create_gamma_list pairs every n in 1..max_num for which no
\* row is below the threshold, an n without rows included, with n or with the
\* largest gamma tabulated for n, and every n for which a row is below the
\* threshold with the tabulated gamma of such a row
C15_GammaListFallback ==
    fn.name = "create_gamma_list" =>
        \A n \in 1..fn.max :
            /\ fn.ret[n + 1][1] = n
            /\ IF GammasBelow(fn.table, n, fn.p) # {}
               THEN fn.ret[n + 1][2] \in GammasBelow(fn.table, n, fn.p)
               ELSE \/ fn.ret[n + 1][2] = n
                    \/ /\ TabulatedGammas(fn.table, n) # {}
                       /\ fn.ret[n + 1][2] = SetMax(TabulatedGammas(fn.table, n))

Occupied(P) == { p \in DOMAIN P : P[p].vms # <<>> }

\* C17 (as stated): every iteration drains the host with the fewest residents
\* among the hosts with residents, the one of lowest id among those tied for
\* the fewest, whatever the order the hosts were given in; with no resident on
\* any host the iteration returns False and changes nothing
C17_TargetFewestLowestId ==
    \A i \in DOMAIN history :
        LET h == history[i]
            P == h.before_pms
        IN  IF Occupied(P) = {}
            THEN /\ ~h.ok
                 /\ h.live_pms = P /\ h.live_vms = h.before_vms
                 /\ i = Len(history) => pms = P /\ vms = h.before_vms
                                           /\ migration_count = h.before_count
            ELSE /\ h.target \in Occupied(P)
                 /\ \A q \in Occupied(P) :
                       \/ Len(P[h.target].vms) < Len(P[q].vms)
                       \/ /\ Len(P[h.target].vms) = Len(P[q].vms)
                          /\ h.target <= q

\* ---------------------------------------------------------------- C18
\* max(1, floor(sample_ratio * r)), sample_ratio being in percent
SampleCount(r) == IF (sample_ratio * r) \div 100 >= 1 THEN (sample_ratio * r) \div 100 ELSE 1

\* C18: the queue of an iteration is made of all residents of the target host
\* and, from every other host with r >= 1 residents, of exactly
\* max(1, floor(sample_ratio * r)) distinct residents of it; every queued VM
\* is off its host's list before the re-placement, every other VM stays on
\* its host, and no VM is twice in the queue
C18_QueueConstruction ==
    \A i \in DOMAIN history :
        LET h == history[i]
            P == h.before_pms
            D == h.drained_pms
            Q == Range(h.queue)
        IN  Occupied(P) # {} =>
              /\ Cardinality(Q) = Len(h.queue)
              /\ Q \subseteq UNION { Range(P[p].vms) : p \in DOMAIN P }
              /\ Range(P[h.target].vms) \subseteq Q
              /\ \A p \in DOMAIN P \ {h.target} :
                    Cardinality(Q \cap Range(P[p].vms)) =
                        IF P[p].vms = <<>> THEN 0 ELSE SampleCount(Len(P[p].vms))
              /\ \A p \in DOMAIN P :
                    D[p].vms = SelectSeq(P[p].vms, LAMBDA v : v \notin Q)
              /\ \A v \in DOMAIN h.before_vms \ Q :
                    /\ h.live_vms[v].pm_id = h.before_vms[v].pm_id
                    /\ \A p \in DOMAIN P :
                          v \in Range(h.live_pms[p].vms) <=> v \in Range(P[p].vms)

\* an iteration that sampled some, not all, of the residents of a host and
\* all the residents of another
C18_Witness ==
    \E i \in DOMAIN history :
        LET h == history[i]
            P == h.before_pms
            Q == Range(h.queue)
        IN  /\ Occupied(P) # {}
            /\ \E p \in DOMAIN P \ {h.target} :
                  /\ Q \cap Range(P[p].vms) # {}
                  /\ Range(P[p].vms) \ Q # {}
            /\ Range(P[h.target].vms) # {}

\* ---------------------------------------------------------------- C19
\* C19 (as stated): the queued VMs are re-placed in order of descending
\* u_c + u_r, and VMs of equal u_c + u_r in order of their identifier
C19_QueueOrderedByDemandThenId ==
    \A i \in DOMAIN history :
        LET h == history[i]
            q == h.queue
            V == h.before_vms
        IN  \A j, k \in DOMAIN q :
                j < k =>
                    \/ u_max(V[q[j]]) > u_max(V[q[k]])
                    \/ /\ u_max(V[q[j]]) = u_max(V[q[k]])
                       /\ q[j] < q[k]

\* ---------------------------------------------------------------- C20
\* the number of VMs the first-fit pass of a logged iteration put on a host
PlacedCount(h) ==
    IdxSum([p \in DOMAIN h.live_pms |->
                Len(h.live_pms[p].vms) - Len(h.drained_pms[p].vms)],
           DOMAIN h.live_pms)

\* PM p as the j-th VM of the queue finds it: what the drain left on it and
\* the VMs of the queue put on it before
HostAt(h, p, j) ==
    [h.drained_pms[p] EXCEPT
        !.vms = @ \o SelectSeq(SubSeq(h.queue, 1, j - 1),
                               LAMBDA v : h.live_vms[v].pm_id = p)]

\* the place of PM p in the scan order
ScanPos(p) == CHOOSE k \in DOMAIN pm_keys : pm_keys[k] = p

\* C20: each queued VM, in queue order, is put on the first host of the scan
\* order that admits it given the VMs re-placed before it in the same pass,
\* the host's list and the VM's pm_id being updated at once; when no host
\* admits a VM, no later VM is placed and the iteration fails
C20_GreedyFirstFit ==
    \A i \in DOMAIN history :
        LET h == history[i]
            q == h.queue
            V == h.before_vms
            n == PlacedCount(h)
        IN  Occupied(h.before_pms) # {} =>
              /\ n <= Len(q)
              /\ h.ok <=> n = Len(q)
              /\ \A j \in 1..n :
                    LET p == h.live_vms[q[j]].pm_id
                    IN  /\ p \in DOMAIN h.live_pms
                        /\ can_place_vm_on_pm(V[q[j]], HostAt(h, p, j), V, G)
                        /\ \A p2 \in DOMAIN h.live_pms :
                              ScanPos(p2) < ScanPos(p) =>
                                ~can_place_vm_on_pm(V[q[j]], HostAt(h, p2, j), V, G)
              /\ \A p \in DOMAIN h.live_pms :
                    h.live_pms[p].vms = HostAt(h, p, n + 1).vms
              /\ n < Len(q) =>
                    /\ \A p \in DOMAIN h.live_pms :
                          ~can_place_vm_on_pm(V[q[n + 1]], HostAt(h, p, n + 1), V, G)
                    /\ \A j \in (n + 1)..Len(q) :
                          /\ h.live_vms[q[j]].pm_id = V[q[j]].pm_id
                          /\ \A p \in DOMAIN h.live_pms :
                                q[j] \notin Range(h.live_pms[p].vms)

\* an iteration that placed a VM, found no host for the next one and left a
\* later one unplaced
C20_Witness ==
    \E i \in DOMAIN history :
        /\ Occupied(history[i].before_pms) # {}
        /\ ~history[i].ok
        /\ PlacedCount(history[i]) >= 1
        /\ PlacedCount(history[i]) + 1 < Len(history[i].queue)

\* ---------------------------------------------------------------- C21
\* count_active_pms(): the number of PMs with residents
count_active_pms(P) == Cardinality({ p \in DOMAIN P : P[p].vms # <<>> })

\* C21: from an input that respects both bounds on every PM, every committed
\* iteration leaves at most as many PMs with residents as it found, and
\* after run() at most as many PMs have residents as at construction
C21_NeverUnconsolidates ==
    (Built /\ InputFeasible) =>
        /\ \A i \in DOMAIN history :
              history[i].ok =>
                count_active_pms(history[i].live_pms)
                    <= count_active_pms(history[i].before_pms)
        /\ pc = "done" =>
              count_active_pms(pms) <= count_active_pms(sync_vm_pm_lists(dict_of(in_pms), dict_of(in_vms)))

\* ---------------------------------------------------------------- C22
\* C22: after construction and after every iteration, committed or rolled
\* back, a VM is in the list of a PM iff its pm_id is that PM's id, no VM is
\* twice in a list or in two lists, the VMs, their u_c, u_r and mem and the
\* PMs' cpu_cap and mem_cap are those given to the constructor, and a PM is
\* active iff its list is not empty
C22_PlacementConsistency ==
    Built =>
        /\ \A p \in DOMAIN pms :
              /\ Range(pms[p].vms) \subseteq DOMAIN vms
              /\ \A v \in DOMAIN vms :
                    v \in Range(pms[p].vms) <=> vms[v].pm_id = pms[p].id
              /\ Cardinality(Range(pms[p].vms)) = Len(pms[p].vms)
              /\ \A p2 \in DOMAIN pms \ {p} :
                    Range(pms[p].vms) \cap Range(pms[p2].vms) = {}
              /\ pms[p].active <=> pms[p].vms # <<>>
        /\ DOMAIN vms = { in_vms[i].id : i \in DOMAIN in_vms }
        /\ \A i \in DOMAIN in_vms :
              LET vm == vms[in_vms[i].id]
              IN  /\ vm.id = in_vms[i].id
                  /\ vm.u_c = in_vms[i].u_c
                  /\ vm.u_r = in_vms[i].u_r
                  /\ vm.mem = in_vms[i].mem
        /\ DOMAIN pms = { in_pms[i].id : i \in DOMAIN in_pms }
        /\ \A i \in DOMAIN in_pms :
              LET pm == pms[in_pms[i].id]
              IN  /\ pm.id = in_pms[i].id
                  /\ pm.cpu_cap = in_pms[i].cpu_cap
                  /\ pm.mem_cap = in_pms[i].mem_cap

\* after a committed iteration that emptied a PM, a VM of the engine being on
\* no PM
C22_Witness ==
    /\ history # <<>>
    /\ history[Len(history)].ok
    /\ \E p \in DOMAIN pms :
          /\ history[Len(history)].before_pms[p].vms # <<>>
          /\ pms[p].vms = <<>>
          /\ ~pms[p].active
    /\ \E v \in DOMAIN vms : vms[v].pm_id = None

\* ---------------------------------------------------------------- C23
\* the number of committed iterations in which VM v changed its PM
TimesMoved(v) ==
    Cardinality({ i \in DOMAIN history :
                    /\ history[i].ok
                    /\ v \in Movers(history[i].before_vms, history[i].live_vms) })

\* the VMs whose pm_id is not the one given to the constructor
NetMovers == Movers(dict_of(in_vms), vms)

\* C23: when run() has returned, migration_count is at least the number of
\* VMs whose pm_id differs from the one at construction, it is that number
\* when no VM changed its PM in more than one committed iteration, and it is
\* the sum over the VMs of the number of committed iterations in which the VM
\* changed its PM, whatever PM the VM ends on
C23_CountBoundsNetMoves ==
    pc = "done" =>
        /\ migration_count >= Cardinality(NetMovers)
        /\ (\A v \in DOMAIN vms : TimesMoved(v) <= 1) =>
              migration_count = Cardinality(NetMovers)
        /\ migration_count = IdxSum([v \in DOMAIN vms |-> TimesMoved(v)], DOMAIN vms)

\* run() has returned, a VM changed its PM in two committed iterations and is
\* on the PM it was constructed on
C23_Witness ==
    /\ pc = "done"
    /\ \E v \in DOMAIN vms :
          /\ TimesMoved(v) = 2
          /\ v \notin NetMovers
    /\ migration_count > Cardinality(NetMovers)

\* ---------------------------------------------------------------- C24
\* gamma_first_fit has returned
FFReturned == pc = "ff" /\ fn.i = fn.data.vm_num

\* the VMs assigned to host j, by position in the data set
FFAssigned(j) == { i \in 0..(fn.data.vm_num - 1) : at(fn.vm_assignment, i) = j }

\* the ur of the VMs of S, in some order
RECURSIVE FFRadii(_)
FFRadii(S) ==
    IF S = {} THEN <<>>
    ELSE LET i == CHOOSE x \in S : TRUE
         IN  <<at(fn.data.ur, i)>> \o FFRadii(S \ {i})

\* the sum of uc over the VMs of S plus the sum of the g largest ur among
\* them
FFRobustLoad(S, g) ==
    IdxSum([i \in S |-> at(fn.data.uc, i)], S)
        + py_sum(py_slice_to(sorted_reverse(FFRadii(S)), g))

\* C24: in the result of gamma_first_fit every VM is assigned to one host or
\* to -1, and on every host with n >= 1 assigned VMs the sum of their uc plus
\* the sum of the gamma_map[n] largest ur among them is at most
\* int(cpu_total * threshold * 1000) and the sum of their mem is at most
\* mem_total
C24_FirstFitRespectsRobustCapacity ==
    FFReturned =>
        /\ \A i \in 0..(fn.data.vm_num - 1) :
              at(fn.vm_assignment, i) \in {0 - 1} \cup (0..(fn.data.host_num - 1))
        /\ \A j \in 0..(fn.data.host_num - 1) :
              LET S == FFAssigned(j)
                  n == Cardinality(S)
              IN  /\ S = Range(at(fn.hosts_state, j).vms)
                  /\ n >= 1 =>
                        /\ FFRobustLoad(S, ff_gamma(fn.gamma_map, n))
                              <= ff_cpu_cap(fn.data, j)
                        /\ IdxSum([i \in S |-> at(fn.data.mem, i)], S)
                              <= at(fn.data.mem_total, j)

====
